---- MODULE Spec2Model ----
(***************************************************************************)
(* The FAT engine of libfat (src/src/table.rs): the cell codec of the      *)
(* three variants, cell I/O on a byte-addressed storage device, the        *)
(* replica writer, the cluster-chain iterator and the chain queries.       *)
(*                                                                         *)
(* The storage device is a byte array.  A read or write that reaches past  *)
(* its end fails, and any single device call of an operation may be made   *)
(* to fail (the StorageDevice returns Err).  Every operation records the   *)
(* device calls it made, as a recording storage device would.              *)
(***************************************************************************)
EXTENDS Integers, Sequences, FiniteSets

(***************************************************************************)
(* Bounds of the model: the geometry of the modelled volume and the fault  *)
(* budget.                                                                 *)
(***************************************************************************)
\* number of FAT replicas the boot record declares (fats_count)
FatsCount == 2
\* highest cluster index the operations are called with; cells 0..MaxCluster
\* fit in one FAT under every variant
MaxCluster == 4
\* bytes per block of the boot record (512..4096 on a real volume)
BytesPerBlock == 8
\* blocks before the first FAT (reserved_block_count)
ReservedBlocks == 1
\* device failures injected in one behaviour
MaxFailures == 1
\* clusters one iterator is followed for (a cyclic chain yields for ever)
MaxYield == 5
\* raw directory slots in the stream of one directory
MaxSlots == 3
\* highest entry_count of a DirectoryEntryRawInfo
MaxEntryCount == 4

FatTypes == {"Fat12", "Fat16", "Fat32"}

(***************************************************************************)
(* FatValue (table.rs:11-25).  A cell is a record; n is 0 unless Data.     *)
(***************************************************************************)
Free == [tag |-> "Free", n |-> 0]
Bad == [tag |-> "Bad", n |-> 0]
EndOfChain == [tag |-> "EndOfChain", n |-> 0]
Data(n) == [tag |-> "Data", n |-> n]

\* Option::None for clusters and cells
None == [tag |-> "None", n |-> 0]

(***************************************************************************)
(* Raw markers of the three encodings.                                     *)
(***************************************************************************)
FAT32_BAD == 268435447
FAT32_EOC_MIN == 268435448
FAT32_MASK == 268435455
FAT16_BAD == 65527
FAT16_EOC_MIN == 65528
FAT16_EOC == 65535
FAT12_BAD == 4087
FAT12_EOC_MIN == 4088
FAT12_EOC == 4095
\* 2^16, the width of u16 ("as u16")
U16 == 65536
\* 2^8, the width of u8 ("as u8")
U8 == 256

\* from_fat32_value (called with the value already masked to 28 bits)
from_fat32_value(val) ==
    IF val = 0 THEN Free
    ELSE IF val = FAT32_BAD THEN Bad
    ELSE IF val >= FAT32_EOC_MIN /\ val <= FAT32_MASK THEN EndOfChain
    ELSE Data(val)

\* to_fat32_value with the Bad marker one too high
to_fat32_value_bad_off_by_one(v) ==
    CASE v.tag = "Free" -> 0
      [] v.tag = "Bad" -> FAT32_BAD + 1
      [] v.tag = "EndOfChain" -> FAT32_MASK
      [] OTHER -> v.n

to_fat32_value(v) ==
    CASE v.tag = "Free" -> 0
      [] v.tag = "Bad" -> FAT32_BAD
      [] v.tag = "EndOfChain" -> FAT32_MASK
      [] OTHER -> v.n

from_fat16_value(val) ==
    IF val = 0 THEN Free
    ELSE IF val = FAT16_BAD THEN Bad
    ELSE IF val >= FAT16_EOC_MIN /\ val <= FAT16_EOC THEN EndOfChain
    ELSE Data(val)

to_fat16_value(v) ==
    CASE v.tag = "Free" -> 0
      [] v.tag = "Bad" -> FAT16_BAD
      [] v.tag = "EndOfChain" -> FAT16_EOC
      [] OTHER -> v.n % U16

from_fat12_value(val) ==
    IF val = 0 THEN Free
    ELSE IF val = FAT12_BAD THEN Bad
    ELSE IF val >= FAT12_EOC_MIN /\ val <= FAT12_EOC THEN EndOfChain
    ELSE Data(val)

to_fat12_value(v) ==
    CASE v.tag = "Free" -> 0
      [] v.tag = "Bad" -> FAT12_BAD
      [] v.tag = "EndOfChain" -> FAT12_EOC
      [] OTHER -> v.n % U16

(***************************************************************************)
(* Geometry and cell addressing.  Cluster::to_fat_offset,                  *)
(* Cluster::to_fat_bytes_offset and the boot record are not in src/; they  *)
(* follow the specification's cell addressing (section 4.2).               *)
(***************************************************************************)
\* byte offset of a cluster's cell inside one FAT: floor(c * width / 8)
to_fat_offset(ft, c) ==
    CASE ft = "Fat12" -> c + (c \div 2)
      [] ft = "Fat16" -> c * 2
      [] OTHER -> c * 4

\* blocks per FAT: room for the 32-bit cells 0..MaxCluster+1
FatSize == ((MaxCluster + 2) * 4 + BytesPerBlock - 1) \div BytesPerBlock

PartitionStart == 0

\* byte offset, from the partition start, of the block holding the cell in FAT 0
to_fat_bytes_offset(ft, c) ==
    (ReservedBlocks + (to_fat_offset(ft, c) \div BytesPerBlock)) * BytesPerBlock

\* first byte of FAT r on the device
FatStart(r) == PartitionStart + (ReservedBlocks + r * FatSize) * BytesPerBlock

DiskSize == PartitionStart + (ReservedBlocks + FatsCount * FatSize) * BytesPerBlock


(***************************************************************************)
(* The storage device.  A device call is logged as                         *)
(*   [op, off, len, data, ok]                                              *)
(* with data the bytes of a write (<<>> for a read).  failAt is the number *)
(* of the device call of the running operation that the device fails       *)
(* (0: none).  The outcome of a device call: [ok, data, disk, log].        *)
(***************************************************************************)
InRange(off, len) == off >= 0 /\ off + len <= DiskSize

DevReadDone(d, off, len, log, ok) ==
    [ok |-> ok,
     data |-> IF ok THEN [i \in 1..len |-> d[off + i - 1]] ELSE <<>>,
     disk |-> d,
     log |-> Append(log, [op |-> "read", off |-> off, len |-> len, data |-> <<>>, ok |-> ok])]

DevRead(d, off, len, log, failAt) ==
    DevReadDone(d, off, len, log, InRange(off, len) /\ Len(log) + 1 # failAt)

DevWriteDone(d, off, data, log, ok) ==
    [ok |-> ok,
     data |-> <<>>,
     disk |-> IF ok
              THEN [i \in DOMAIN d |->
                      IF i >= off /\ i < off + Len(data) THEN data[i - off + 1] ELSE d[i]]
              ELSE d,
     log |-> Append(log, [op |-> "write", off |-> off, len |-> Len(data),
                          data |-> data, ok |-> ok])]

DevWrite(d, off, data, log, failAt) ==
    DevWriteDone(d, off, data, log, InRange(off, Len(data)) /\ Len(log) + 1 # failAt)

\* u16::from_le_bytes
U16FromLe(data) == data[1] + U8 * data[2]

\* u32::from_le_bytes(data) & 0x7FFF_FFFF: a mask that is too wide
U32FromLe_wide_mask(data) ==
    data[1] + U8 * data[2] + U8 * U8 * data[3] + U8 * U8 * U8 * (data[4] % 128)

\* u32::from_le_bytes(data) & 0x0FFF_FFFF
U32FromLeMasked(data) ==
    data[1] + U8 * data[2] + U8 * U8 * data[3] + U8 * U8 * U8 * (data[4] % 16)

\* (v & 0x0FFF_FFFF).to_le_bytes() for a u32
U32ToLe(m) ==
    <<m % U8, (m \div U8) % U8, (m \div (U8 * U8)) % U8, (m \div (U8 * U8 * U8)) % U8>>

\* value.to_le_bytes() without the mask
U32ToLe_unmasked(v) == U32ToLe(v)

U32ToLeMasked(v) == U32ToLe(v % (FAT32_MASK + 1))

\* u16::to_le_bytes
U16ToLe(v) == <<v % U8, (v \div U8) % U8>>

(***************************************************************************)
(* Cell I/O.  An operation's outcome is [res, val, off, disk, log]:        *)
(* res is "Ok", "ReadFailed" or "WriteFailed".                             *)
(***************************************************************************)
\* the Fat12 nibble phase of from_cluster: odd clusters sit in the high 12 bits
fat12_extract(cluster, value) ==
    IF cluster % 2 = 1 THEN value \div 16 ELSE value % 4096

\* decoding of the bytes read for a cell
decode_cell(ft, cluster, data) ==
    CASE ft = "Fat32" -> from_fat32_value(U32FromLeMasked(data))
      [] ft = "Fat16" -> from_fat16_value(U16FromLe(data))
      [] OTHER -> from_fat12_value(fat12_extract(cluster, U16FromLe(data)))

\* cluster_storage_offset of from_cluster
cluster_storage_offset(ft, cluster, fat_index) ==
    to_fat_bytes_offset(ft, cluster) + (fat_index * FatSize) * BytesPerBlock

\* partition_storage_offset of from_cluster and raw_put
partition_storage_offset(ft, cluster, fat_index) ==
    PartitionStart + cluster_storage_offset(ft, cluster, fat_index)
        + (to_fat_offset(ft, cluster) % BytesPerBlock)

\* bytes read and written for one cell
CellLen(ft) == IF ft = "Fat32" THEN 4 ELSE 2

\* what from_cluster returns, given the outcome r of its device read
from_cluster_result(ft, d, cluster, fat_index, r) ==
    IF ~r.ok
    THEN [res |-> "ReadFailed", val |-> None, off |-> 0, disk |-> d, log |-> r.log]
    ELSE [res |-> "Ok", val |-> decode_cell(ft, cluster, r.data),
          off |-> cluster_storage_offset(ft, cluster, fat_index),
          disk |-> d, log |-> r.log]

from_cluster(ft, d, cluster, fat_index, log, failAt) ==
    from_cluster_result(ft, d, cluster, fat_index,
        DevRead(d, partition_storage_offset(ft, cluster, fat_index),
                CellLen(ft), log, failAt))

\* FatValue::get: the cell of FAT 0
get(ft, d, cluster, failAt) == from_cluster(ft, d, cluster, 0, <<>>, failAt)

\* no_write_needed that never skips the write
no_write_needed_never(res, value) == FALSE

\* "no write needed": the cell read equals the cell requested
no_write_needed(res, value) == res = value

\* fat12_splice without the shift of the odd nibble phase
fat12_splice_no_shift(cluster, data, value) ==
    <<value % U8, (data[2] - (data[2] % 16)) + ((value \div U8) % 16)>>

\* the Fat12 splice of raw_put: data is the 2-byte word read, value the raw cell
fat12_splice(cluster, data, value) ==
    IF cluster % 2 = 1
    THEN <<(data[1] % 16) + ((value * 16) % U8), (value \div 16) % U8>>
    ELSE <<value % U8, ((value % U8) - ((value % U8) % 16)) + ((value \div U8) % 16)>>

\* the result of raw_put after its device write w
write_result(w) ==
    [res |-> IF w.ok THEN "Ok" ELSE "WriteFailed", disk |-> w.disk, log |-> w.log]

\* the Fat12 arm of raw_put after its device read r
fat12_write(d, cluster, value, pso, r, failAt) ==
    IF ~r.ok
    THEN [res |-> "ReadFailed", disk |-> d, log |-> r.log]
    ELSE write_result(DevWrite(d, pso, fat12_splice(cluster, r.data, to_fat12_value(value)),
                               r.log, failAt))

\* the write arm of raw_put, once a write is needed
raw_put_write(ft, d, cluster, value, pso, log, failAt) ==
    CASE ft = "Fat32" ->
           write_result(DevWrite(d, pso, U32ToLeMasked(to_fat32_value(value)), log, failAt))
      [] ft = "Fat16" ->
           write_result(DevWrite(d, pso, U16ToLe(to_fat16_value(value)), log, failAt))
      [] OTHER ->
           fat12_write(d, cluster, value, pso, DevRead(d, pso, 2, log, failAt), failAt)

\* raw_put_after without the "no write needed" return
raw_put_after_always_write(ft, d, cluster, value, fat_index, c, failAt) ==
    IF c.res # "Ok"
    THEN [res |-> c.res, disk |-> d, log |-> c.log]
    ELSE raw_put_write(ft, d, cluster, value,
                       partition_storage_offset(ft, cluster, fat_index), c.log, failAt)

\* raw_put after its from_cluster call returned c
raw_put_after(ft, d, cluster, value, fat_index, c, failAt) ==
    IF c.res # "Ok"
    THEN [res |-> c.res, disk |-> d, log |-> c.log]
    ELSE IF no_write_needed(c.val, value)
    THEN [res |-> "Ok", disk |-> d, log |-> c.log]
    ELSE raw_put_write(ft, d, cluster, value,
                       partition_storage_offset(ft, cluster, fat_index), c.log, failAt)

\* FatValue::raw_put: one cell of one FAT
raw_put(ft, d, cluster, value, fat_index, log, failAt) ==
    raw_put_after(ft, d, cluster, value, fat_index,
                  from_cluster(ft, d, cluster, fat_index, log, failAt), failAt)

\* put_loop that writes FAT 0 only
put_loop_first_fat(ft, cluster, value, fat_index, o, failAt) == o

\* put_loop without the "?": it goes on to the next FAT after a failure
RECURSIVE put_loop_no_abort(_, _, _, _, _, _)
put_loop_no_abort(ft, cluster, value, fat_index, o, failAt) ==
    IF fat_index + 1 >= FatsCount
    THEN o
    ELSE put_loop_no_abort(ft, cluster, value, fat_index + 1,
                           raw_put(ft, o.disk, cluster, value, fat_index + 1, o.log, failAt),
                           failAt)

\* the replica loop of FatValue::put: raw_put returned o for fat_index
RECURSIVE put_loop(_, _, _, _, _, _)
put_loop(ft, cluster, value, fat_index, o, failAt) ==
    IF o.res # "Ok" \/ fat_index + 1 >= FatsCount
    THEN o
    ELSE put_loop(ft, cluster, value, fat_index + 1,
                  raw_put(ft, o.disk, cluster, value, fat_index + 1, o.log, failAt),
                  failAt)

\* FatValue::put: the cell in all FATs
put(ft, d, cluster, value, failAt) ==
    IF FatsCount = 0
    THEN [res |-> "Ok", disk |-> d, log |-> <<>>]
    ELSE put_loop(ft, cluster, value, 0,
                  raw_put(ft, d, cluster, value, 0, <<>>, failAt), failAt)

(***************************************************************************)
(* The chain iterator (FatClusterIter).  The record carries, beside        *)
(* current_cluster and last_fat, the seed, the clusters yielded so far and *)
(* what the last call of next returned (Fresh: next was not called yet).   *)
(***************************************************************************)
Some(n) == [tag |-> "Some", n |-> n]
Fresh == [tag |-> "Fresh", n |-> 0]

NoIter == [live |-> FALSE, current |-> None, last_fat |-> None,
           seed |-> 0, yielded |-> <<>>, ret |-> Fresh]

\* FatClusterIter::new: the seed's cell is read; a failed read leaves None
iter_new(ft, d, cluster, failAt) ==
    [live |-> TRUE, current |-> Some(cluster),
     last_fat |-> get(ft, d, cluster, failAt).val,
     seed |-> cluster, yielded |-> <<>>, ret |-> Fresh]

\* next that returns the cluster it moves to, not the one it was at
iter_next_skips_current(ft, d, it, failAt) ==
    IF it.current = None
    THEN [it EXCEPT !.ret = None]
    ELSE IF it.last_fat.tag = "Data"
    THEN [it EXCEPT !.current = Some(it.last_fat.n),
                    !.last_fat = get(ft, d, it.last_fat.n, failAt).val,
                    !.yielded = Append(@, it.last_fat.n),
                    !.ret = Some(it.last_fat.n)]
    ELSE [it EXCEPT !.current = None,
                    !.yielded = Append(@, it.current.n),
                    !.ret = it.current]

\* next that stays on the last cluster when its cell is not Data
iter_next_never_ends(ft, d, it, failAt) ==
    IF it.current = None
    THEN [it EXCEPT !.ret = None]
    ELSE IF it.last_fat.tag = "Data"
    THEN [it EXCEPT !.current = Some(it.last_fat.n),
                    !.last_fat = get(ft, d, it.last_fat.n, failAt).val,
                    !.yielded = Append(@, it.current.n),
                    !.ret = it.current]
    ELSE [it EXCEPT !.yielded = Append(@, it.current.n), !.ret = it.current]

\* next that yields nothing once a read of a cell has failed
iter_next_stops_on_failed_read(ft, d, it, failAt) ==
    IF it.current = None \/ it.last_fat = None
    THEN [it EXCEPT !.current = None, !.ret = None]
    ELSE IF it.last_fat.tag = "Data"
    THEN [it EXCEPT !.current = Some(it.last_fat.n),
                    !.last_fat = get(ft, d, it.last_fat.n, failAt).val,
                    !.yielded = Append(@, it.current.n),
                    !.ret = it.current]
    ELSE [it EXCEPT !.current = None,
                    !.yielded = Append(@, it.current.n),
                    !.ret = it.current]

\* next that ends the traversal when the chain leads back to the seed
iter_next_stops_at_seed(ft, d, it, failAt) ==
    IF it.current = None
    THEN [it EXCEPT !.ret = None]
    ELSE IF it.last_fat.tag = "Data" /\ it.last_fat.n # it.seed
    THEN [it EXCEPT !.current = Some(it.last_fat.n),
                    !.last_fat = get(ft, d, it.last_fat.n, failAt).val,
                    !.yielded = Append(@, it.current.n),
                    !.ret = it.current]
    ELSE [it EXCEPT !.current = None,
                    !.yielded = Append(@, it.current.n),
                    !.ret = it.current]

\* FileSystemIterator::next of FatClusterIter
iter_next(ft, d, it, failAt) ==
    IF it.current = None
    THEN [it EXCEPT !.ret = None]
    ELSE IF it.last_fat.tag = "Data"
    THEN [it EXCEPT !.current = Some(it.last_fat.n),
                    !.last_fat = get(ft, d, it.last_fat.n, failAt).val,
                    !.yielded = Append(@, it.current.n),
                    !.ret = it.current]
    ELSE [it EXCEPT !.current = None,
                    !.yielded = Append(@, it.current.n),
                    !.ret = it.current]

\* whether this call of next reads the device
next_reads(it) == it.current # None /\ it.last_fat.tag = "Data"

(***************************************************************************)
(* get_last_and_previous_cluster: the while loop, one iteration per step.  *)
(* pc is "idle" (no call yet), "loop" (in the loop) or "done" (returned    *)
(* res; on Ok the result is (current, previous)).                          *)
(***************************************************************************)
WalkIdle == [pc |-> "idle", seed |-> 0, current |-> 0, previous |-> None, res |-> "Ok"]

walk_start(cluster) ==
    [pc |-> "loop", seed |-> cluster, current |-> cluster, previous |-> None, res |-> "Ok"]

\* the loop body that records the successor as the previous cluster
walk_next_wrong_previous(w, g) ==
    IF g.res # "Ok"
    THEN [w EXCEPT !.pc = "done", !.res = g.res, !.current = 0, !.previous = None]
    ELSE IF g.val.tag = "Data"
    THEN [w EXCEPT !.previous = Some(g.val.n), !.current = g.val.n]
    ELSE [w EXCEPT !.pc = "done"]

\* one evaluation of the while condition, g being what FatValue::get returned
walk_next(w, g) ==
    IF g.res # "Ok"
    THEN [w EXCEPT !.pc = "done", !.res = g.res, !.current = 0, !.previous = None]
    ELSE IF g.val.tag = "Data"
    THEN [w EXCEPT !.previous = Some(w.current), !.current = g.val.n]
    ELSE [w EXCEPT !.pc = "done"]

walk_step(ft, d, w, failAt) == walk_next(w, get(ft, d, w.current, failAt))

\* what get_last_and_previous_cluster returns
last_and_previous_ret(w) == [res |-> w.res, cluster |-> w.current, previous |-> w.previous]

\* get_last_cluster that takes the other component of the pair
get_last_cluster_ret_previous(w) ==
    [res |-> w.res, cluster |-> IF w.previous = None THEN 0 ELSE w.previous.n]

\* get_last_cluster: the first component of get_last_and_previous_cluster
get_last_cluster_ret(w) == [res |-> w.res, cluster |-> last_and_previous_ret(w).cluster]

(***************************************************************************)
(* State.                                                                  *)
(***************************************************************************)
VARIABLES
    fat_type,   \* boot_record.fat_type of the opened volume
    disk,       \* the bytes of the storage device
    last,       \* the last completed call: [op, cluster, value, res, ret, again, log]
    failures,   \* device failures injected so far
    iter,       \* the FatClusterIter the caller holds, with what it yielded
    walk,       \* the running get_last_and_previous_cluster call, or its result
    cluster_count,  \* boot_record.cluster_count of the opened volume
    dir         \* the raw directory slots a FatDirEntryIterator yields from its anchor

vars == <<fat_type, disk, last, failures, iter, walk, cluster_count, dir>>

\* the data clusters of the volume
Clusters == 2..MaxCluster

\* the clusters put is called with: one of each Fat12 nibble phase
PutClusters == {2, 3}

\* the cells put is called with: the terminators, a link, Data(0x123),
\* Data(0) and a link wider than 16 bits
PutValues == {Free, Bad, EndOfChain, Data(3), Data(291), Data(0), Data(U16 + 3)}

\* the device call an operation may be made to fail, within the fault budget
FailChoices(n) == IF failures < MaxFailures THEN 0..n ELSE {0}

\* device calls one put can make: read, read, write per FAT
MaxCalls == 3 * FatsCount

BlankDisk == [i \in 0..(DiskSize - 1) |-> 0]

\* a disk whose FATs all hold the bytes bs from the cell of cluster c on
ImageAt(ft, c, bs) ==
    [i \in 0..(DiskSize - 1) |->
        IF \E r \in 0..(FatsCount - 1) :
              /\ i >= partition_storage_offset(ft, c, r)
              /\ i < partition_storage_offset(ft, c, r) + Len(bs)
        THEN bs[1 + ((i - partition_storage_offset(ft, c, 0)) % (FatSize * BytesPerBlock))]
        ELSE 0]

\* the volumes the model opens: an empty backing, and the bytes AB CD EF at
\* the cell of cluster 2
InitDisks(ft) == {BlankDisk, ImageAt(ft, 2, <<171, 205, 239>>)}

\* again: the call repeats the call before it, which returned Ok
NoCall == [op |-> "none", cluster |-> 0, value |-> None, res |-> "Ok",
           ret |-> None, again |-> FALSE, log |-> <<>>]

Repeats(op, k, c) ==
    last.op = op /\ last.cluster = k /\ last.value = c /\ last.res = "Ok"

Init ==
    /\ fat_type \in FatTypes
    /\ disk \in InitDisks(fat_type)
    /\ last = NoCall
    /\ failures = 0
    /\ iter = NoIter
    /\ walk = WalkIdle
    /\ cluster_count = MaxCluster
    /\ dir = <<>>

\* the failing call was made, and the budget allows it
Injected(failAt, log) == failAt # 0 /\ failAt <= Len(log)

FaultOk(failAt, log) == failAt <= Len(log)

Put(k, c, failAt) ==
    \E o \in {put(fat_type, disk, k, c, failAt)} :
        /\ FaultOk(failAt, o.log)
        /\ disk' = o.disk
        /\ last' = [op |-> "put", cluster |-> k, value |-> c, res |-> o.res,
                    ret |-> None, again |-> Repeats("put", k, c), log |-> o.log]
        /\ failures' = IF Injected(failAt, o.log) THEN failures + 1 ELSE failures
        /\ UNCHANGED <<fat_type, cluster_count, dir, iter, walk>>

Get(k, failAt) ==
    \E o \in {get(fat_type, disk, k, failAt)} :
        /\ FaultOk(failAt, o.log)
        /\ last' = [op |-> "get", cluster |-> k, value |-> None, res |-> o.res,
                    ret |-> o.val, again |-> Repeats("get", k, None), log |-> o.log]
        /\ failures' = IF Injected(failAt, o.log) THEN failures + 1 ELSE failures
        /\ UNCHANGED <<fat_type, cluster_count, dir, disk, iter, walk>>

Next ==
    \/ \E k \in PutClusters, c \in PutValues, f \in FailChoices(MaxCalls) : Put(k, c, f)
    \/ \E k \in Clusters, f \in FailChoices(1) : Get(k, f)

Spec == Init /\ [][Next]_vars

(***************************************************************************)
(* The chain operations, over every content of the FAT.  The caller runs   *)
(* one chain operation at a time: starting a traversal or a query lets go  *)
(* of the previous one.  The FAT is not written while they run.            *)
(***************************************************************************)
\* the raw cell of a cell value, in the width of the variant
RawOf(ft, v) ==
    CASE ft = "Fat32" -> to_fat32_value(v) % (FAT32_MASK + 1)
      [] ft = "Fat16" -> to_fat16_value(v)
      [] OTHER -> to_fat12_value(v) % 4096

CellRaw(ft, cells, c) == IF c \in DOMAIN cells THEN RawOf(ft, cells[c]) ELSE 0

\* byte b of a FAT whose cells are given (cells not given are 0)
FatByte(ft, cells, b) ==
    CASE ft = "Fat32" -> U32ToLe(CellRaw(ft, cells, b \div 4))[(b % 4) + 1]
      [] ft = "Fat16" -> U16ToLe(CellRaw(ft, cells, b \div 2))[(b % 2) + 1]
      [] OTHER ->
           CASE b % 3 = 0 -> CellRaw(ft, cells, 2 * (b \div 3)) % U8
             [] b % 3 = 1 -> (CellRaw(ft, cells, 2 * (b \div 3)) \div U8)
                                + 16 * (CellRaw(ft, cells, 2 * (b \div 3) + 1) % 16)
             [] OTHER -> CellRaw(ft, cells, 2 * (b \div 3) + 1) \div 16

\* a disk whose FATs all hold the given cells
FatImage(ft, cells) ==
    [i \in 0..(DiskSize - 1) |->
        IF i < FatStart(0) THEN 0
        ELSE FatByte(ft, cells, (i - FatStart(0)) % (FatSize * BytesPerBlock))]

\* what a cell of a chain may hold: a terminator or a link to a data cluster
ChainValues == {Free, Bad, EndOfChain} \cup {Data(n) : n \in Clusters}

ChainDisks(ft) == {FatImage(ft, cells) : cells \in [Clusters -> ChainValues]}

ChainInit ==
    /\ fat_type \in FatTypes
    /\ disk \in ChainDisks(fat_type)
    /\ last = NoCall
    /\ failures = 0
    /\ iter = NoIter
    /\ walk = WalkIdle
    /\ cluster_count = MaxCluster
    /\ dir = <<>>

IterNew(seed, failAt) ==
    /\ walk.pc # "loop"
    /\ iter' = iter_new(fat_type, disk, seed, failAt)
    /\ walk' = WalkIdle
    /\ failures' = failures + failAt
    /\ UNCHANGED <<fat_type, cluster_count, dir, disk, last>>

IterNext(failAt) ==
    /\ walk.pc # "loop"
    /\ iter.live
    /\ iter.current # None => Len(iter.yielded) < MaxYield
    /\ failAt = 1 => next_reads(iter)
    /\ iter' = iter_next(fat_type, disk, iter, failAt)
    /\ failures' = failures + failAt
    /\ UNCHANGED <<fat_type, cluster_count, dir, disk, last, walk>>

WalkStart(seed) ==
    /\ walk.pc # "loop"
    /\ walk' = walk_start(seed)
    /\ iter' = NoIter
    /\ UNCHANGED <<fat_type, cluster_count, dir, disk, last, failures>>

WalkStep(failAt) ==
    /\ walk.pc = "loop"
    /\ walk' = walk_step(fat_type, disk, walk, failAt)
    /\ failures' = failures + failAt
    /\ UNCHANGED <<fat_type, cluster_count, dir, disk, last, iter>>

ChainNext ==
    \/ \E seed \in Clusters, f \in FailChoices(1) : IterNew(seed, f)
    \/ \E f \in FailChoices(1) : IterNext(f)
    \/ \E seed \in Clusters : WalkStart(seed)
    \/ \E f \in FailChoices(1) : WalkStep(f)

ChainSpec == ChainInit /\ [][ChainNext]_vars

(***************************************************************************)
(* One iterator stepped by its caller until it yields nothing: the caller  *)
(* keeps calling next.                                                     *)
(***************************************************************************)
LiveInit ==
    /\ fat_type \in FatTypes
    /\ disk \in ChainDisks(fat_type)
    /\ last = NoCall
    /\ walk = WalkIdle
    /\ cluster_count = MaxCluster
    /\ dir = <<>>
    /\ \E seed \in Clusters, f \in 0..1 :
          /\ failures = f
          /\ iter = iter_new(fat_type, disk, seed, f)

LiveNext == \E f \in FailChoices(1) : IterNext(f)

ChainLive == LiveInit /\ [][LiveNext]_vars /\ WF_vars(LiveNext)

(***************************************************************************)
(* Vocabulary of the properties.                                           *)
(***************************************************************************)
\* the cell of cluster k as FAT r holds it on disk d, read at the cell's
\* absolute byte offset
ReadCell(d, r, k) ==
    decode_cell(fat_type, k,
        [i \in 1..CellLen(fat_type) |-> d[FatStart(r) + to_fat_offset(fat_type, k) + i - 1]])

\* the FAT a device offset lies in
ReplicaOf(off) == (off - FatStart(0)) \div (FatSize * BytesPerBlock)

Replicas == 0..(FatsCount - 1)

BadMarker(ft) ==
    CASE ft = "Fat12" -> FAT12_BAD [] ft = "Fat16" -> FAT16_BAD [] OTHER -> FAT32_BAD

\* a canonical cell of the variant: a terminator, or Data(n) with n in the
\* variant's Data range
Canonical(ft, c) == c.tag # "Data" \/ (c.n > 0 /\ c.n < BadMarker(ft))

Writes(log) == {i \in 1..Len(log) : log[i].op = "write"}
Failed(log) == {i \in 1..Len(log) : ~log[i].ok}

PutOk == last.op = "put" /\ last.res = "Ok"

\* C1 as stated: after a successful put(k, c), get(k) returns c, for every
\* cell c of the four-valued type.
C1_PutGetAnyCell ==
    PutOk => get(fat_type, disk, last.cluster, 0).val = last.value

\* C1 (amended): after a successful put(k, c) of a canonical cell c, an
\* immediately following get(k) returns Ok(c).
C1_PutGet ==
    (PutOk /\ Canonical(fat_type, last.value)) =>
        /\ get(fat_type, disk, last.cluster, 0).res = "Ok"
        /\ get(fat_type, disk, last.cluster, 0).val = last.value

\* a put that wrote a Data cell into every FAT of a Fat12 volume
C1_Witness ==
    /\ PutOk /\ fat_type = "Fat12" /\ last.value = Data(291) /\ last.cluster = 3
    /\ Cardinality(Writes(last.log)) = FatsCount
    /\ get(fat_type, disk, 3, 0).val = Data(291)

\* C2 as stated: put(k, c) leaves the value get(k+1) returns unchanged.
C2_NeighbourPreserved ==
    [][last'.op = "put" =>
          get(fat_type, disk', last'.cluster + 1, 0).val
              = get(fat_type, disk, last'.cluster + 1, 0).val]_vars

\* C3 as stated: after a successful put(k, c), every FAT holds c at k.
C3_MirrorAnyCell ==
    PutOk => \A r \in Replicas : ReadCell(disk, r, last.cluster) = last.value

\* C3 (amended): after a successful put(k, c) of a canonical cell c, reading
\* cell k from each FAT yields c, whatever the FATs held before.
C3_Mirror ==
    (PutOk /\ Canonical(fat_type, last.value)) =>
        \A r \in Replicas : ReadCell(disk, r, last.cluster) = last.value

\* a successful put that skipped FAT 0, which held c already, and wrote another FAT
C3_Witness ==
    /\ PutOk /\ Canonical(fat_type, last.value)
    /\ Writes(last.log) # {}
    /\ \A i \in Writes(last.log) : ReplicaOf(last.log[i].off) > 0
    /\ \A r \in Replicas : ReadCell(disk, r, last.cluster) = last.value

\* the cell a read returns once put has stored c
Stored(ft, k, c) ==
    CASE ft = "Fat32" -> from_fat32_value(to_fat32_value(c) % (FAT32_MASK + 1))
      [] ft = "Fat16" -> from_fat16_value(to_fat16_value(c))
      [] OTHER -> from_fat12_value(to_fat12_value(c) % 4096)

\* C4: a put one of whose device calls fails returns that failure
\* (ReadFailed for a read, WriteFailed for a write) and the failed call is
\* its last; its device calls visit the FATs in ascending order and none is
\* made for a FAT after the failing one, whose bytes are unchanged; every
\* FAT before the failing one holds the new value.
C4_StopAtFirstFailure ==
    [][(last'.op = "put" /\ (last'.res # "Ok" \/ Failed(last'.log) # {})) =>
          /\ Failed(last'.log) = {Len(last'.log)}
          /\ last'.res = IF last'.log[Len(last'.log)].op = "read"
                         THEN "ReadFailed" ELSE "WriteFailed"
          /\ \A i \in 1..(Len(last'.log) - 1) :
                ReplicaOf(last'.log[i].off) <= ReplicaOf(last'.log[i + 1].off)
          /\ \A i \in DOMAIN disk :
                ReplicaOf(i) > ReplicaOf(last'.log[Len(last'.log)].off) => disk'[i] = disk[i]
          /\ \A r \in Replicas :
                r < ReplicaOf(last'.log[Len(last'.log)].off) =>
                    ReadCell(disk', r, last'.cluster)
                        = Stored(fat_type, last'.cluster, last'.value)]_vars

\* a put that wrote FAT 0 and failed on FAT 1
C4_Witness ==
    /\ last.op = "put" /\ last.res = "WriteFailed"
    /\ ReplicaOf(last.log[Len(last.log)].off) = 1
    /\ \E i \in Writes(last.log) : ReplicaOf(last.log[i].off) = 0 /\ last.log[i].ok
    /\ ReadCell(disk, 0, last.cluster) = last.value
    /\ ReadCell(disk, 1, last.cluster) # last.value

\* C5 as stated: a second put(k, c) after a successful put(k, c) performs no
\* device write and returns success (when none of its device calls fails).
C5_SecondPutAnyCell ==
    (last.op = "put" /\ last.again) =>
        /\ Writes(last.log) = {}
        /\ (Failed(last.log) = {} => last.res = "Ok")

\* C5 (amended): for a canonical cell c, a second put(k, c) after a
\* successful put(k, c) performs no device write on any FAT, and returns
\* success unless one of its device reads fails.
C5_SecondPut ==
    (last.op = "put" /\ last.again /\ Canonical(fat_type, last.value)) =>
        /\ Writes(last.log) = {}
        /\ (Failed(last.log) = {} => last.res = "Ok")
        /\ (Failed(last.log) # {} => last.res = "ReadFailed")

\* a second put of the same canonical Data cell, which returned Ok
C5_Witness ==
    /\ last.op = "put" /\ last.again /\ last.res = "Ok"
    /\ last.value = Data(3) /\ Len(last.log) = FatsCount

\* every FAT of disk d holds cell c at cluster k
OnDisk(d, k, c) == \A r \in Replicas : ReadCell(d, r, k) = c

\* C6 as stated: a put of the value already on disk returns success with
\* zero device calls.
C6_NoDeviceCall ==
    [][(last'.op = "put" /\ OnDisk(disk, last'.cluster, last'.value)) =>
          (last'.res = "Ok" /\ last'.log = <<>>)]_vars

\* C6 (amended): a put(k, c) when every FAT already holds c at k makes no
\* device write and leaves the disk as it is; its only device calls are one
\* read of cell k per FAT, in ascending FAT order, and it returns success
\* unless one of those reads fails.
C6_NoOpPut ==
    [][(last'.op = "put" /\ OnDisk(disk, last'.cluster, last'.value)) =>
          /\ disk' = disk
          /\ \A i \in 1..Len(last'.log) :
                /\ last'.log[i].op = "read"
                /\ last'.log[i].off
                     = partition_storage_offset(fat_type, last'.cluster, i - 1)
                /\ last'.log[i].len = CellLen(fat_type)
          /\ IF Failed(last'.log) = {}
             THEN last'.res = "Ok" /\ Len(last'.log) = FatsCount
             ELSE last'.res = "ReadFailed"]_vars

\* a put of a Bad cell every FAT already held: one read per FAT, Ok
C6_Witness ==
    /\ PutOk /\ last.value = Bad /\ ~last.again
    /\ OnDisk(disk, last.cluster, Bad)
    /\ Writes(last.log) = {} /\ Len(last.log) = FatsCount

(***************************************************************************)
(* Vocabulary of the chain properties: the chain of a seed, read off the   *)
(* cells of FAT 0.                                                         *)
(***************************************************************************)
\* the clusters met from c on by following Data links, at most n of them
RECURSIVE Follow(_, _, _)
Follow(d, c, n) ==
    IF n <= 1 \/ ReadCell(d, 0, c).tag # "Data"
    THEN <<c>>
    ELSE <<c>> \o Follow(d, ReadCell(d, 0, c).n, n - 1)

\* a chain that ends visits each data cluster at most once
ChainBound == Cardinality(Clusters)

Chain(d, seed) == Follow(d, seed, ChainBound)

\* the chain of seed reaches a cell that is not Data
EndsAt(d, ch) == ReadCell(d, 0, ch[Len(ch)]).tag # "Data"
ChainEnds(d, seed) == EndsAt(d, Chain(d, seed))

IsPrefix(a, b) == Len(a) <= Len(b) /\ \A i \in 1..Len(a) : a[i] = b[i]

\* the iterator yielded a prefix of chain ch, stands on the next cluster of
\* ch, and is terminal exactly when the whole of ch was yielded
FollowsChain(it, ch) ==
    /\ IsPrefix(it.yielded, ch)
    /\ it.current # None =>
          /\ Len(it.yielded) < Len(ch)
          /\ it.current.n = ch[Len(it.yielded) + 1]
    /\ it.current = None => it.yielded = ch
    /\ it.ret = None => it.current = None
    /\ it.ret.tag = "Some" => it.ret.n = it.yielded[Len(it.yielded)]

\* C7: while no device read fails, an iterator over a chain c0, ..., cm that
\* ends in a non-Data cell yields c0, ..., cm in that order, the seed first,
\* and is terminal after cm: it yields nothing from then on.
C7_IterYieldsChain ==
    (iter.live /\ iter.last_fat # None /\ ChainEnds(disk, iter.seed)) =>
        FollowsChain(iter, Chain(disk, iter.seed))

\* cells 2 -> 3, 3 -> 4, 4 -> EndOfChain: the iterator yielded [2, 3, 4] and
\* then nothing
C7_Witness ==
    /\ ReadCell(disk, 0, 2) = Data(3) /\ ReadCell(disk, 0, 3) = Data(4)
    /\ ReadCell(disk, 0, 4) = EndOfChain
    /\ iter.live /\ iter.seed = 2 /\ iter.yielded = <<2, 3, 4>>
    /\ iter.ret = None /\ iter.current = None /\ iter.last_fat = EndOfChain

\* the iterator of seed stepped, with no device failure, until it is terminal
RECURSIVE Drain(_, _, _)
Drain(d, it, n) ==
    IF n = 0 \/ it.current = None
    THEN it
    ELSE Drain(d, iter_next(fat_type, d, it, 0), n - 1)

IterChain(d, seed) == Drain(d, iter_new(fat_type, d, seed, 0), ChainBound + 1)

WalkOk == walk.pc = "done" /\ walk.res = "Ok"

\* the final cluster the drained iterator it yielded is c
FinalYield(it, c) ==
    it.current = None /\ it.yielded # <<>> /\ it.yielded[Len(it.yielded)] = c

\* C8: when last(seed) returns Ok(L), the iterator of the same seed over the
\* same FAT becomes terminal and the final cluster it yields is L.
C8_LastIsFinalYield ==
    WalkOk => FinalYield(IterChain(disk, walk.seed), get_last_cluster_ret(walk).cluster)

\* last(2) = 4 on a three-cluster chain whose iterator yields [2, 3, 4]
C8_Witness ==
    /\ WalkOk /\ walk.seed = 2 /\ get_last_cluster_ret(walk).cluster = 4
    /\ IterChain(disk, 2).yielded = <<2, 3, 4>>

\* r = (L, P) is the last cluster of chain ch and the cluster before it
LastAndPrevOf(d, r, ch) ==
    /\ EndsAt(d, ch)
    /\ r.cluster = ch[Len(ch)]
    /\ (r.previous = None) <=> (Len(ch) = 1)
    /\ (r.previous = None) <=> (ReadCell(d, 0, ch[1]).tag # "Data")
    /\ r.previous # None =>
          /\ r.previous.n = ch[Len(ch) - 1]
          /\ ReadCell(d, 0, r.previous.n) = Data(r.cluster)

\* C9: last_and_prev(seed) returning Ok((L, P)): L is the last cluster of
\* the chain of seed, P is None iff the seed's own cell is not Data, and
\* otherwise P is the cluster visited just before L, whose cell is Data(L).
C9_LastAndPrev ==
    WalkOk => LastAndPrevOf(disk, last_and_previous_ret(walk), Chain(disk, walk.seed))

\* Fat16 cells 2 -> 3, 3 -> 4, 4 -> EndOfChain: last_and_prev(2) = (4, Some(3))
C9_Witness ==
    /\ fat_type = "Fat16"
    /\ ReadCell(disk, 0, 2) = Data(3) /\ ReadCell(disk, 0, 3) = Data(4)
    /\ ReadCell(disk, 0, 4) = EndOfChain
    /\ WalkOk /\ walk.seed = 2
    /\ last_and_previous_ret(walk) = [res |-> "Ok", cluster |-> 4, previous |-> Some(3)]

Terminal == iter.current = None /\ iter.ret = None

\* C10: an iterator whose seed's chain reaches EndOfChain, Bad or Free is
\* terminal after finitely many steps and stays terminal, yielding nothing.
C10_IterTerminates == ChainEnds(disk, iter.seed) => <>[]Terminal

\* a terminal iterator that yielded a chain of three clusters
C10_Witness ==
    /\ ChainEnds(disk, iter.seed) /\ Terminal
    /\ Len(iter.yielded) = 3 /\ iter.last_fat \in {Free, Bad, EndOfChain}

(***************************************************************************)
(* FatValue::initialize and get_free_cluster_count, on a volume whose boot *)
(* record declares cluster_count clusters.  Their device calls are logged  *)
(* one after the other; failAt counts over the whole operation.            *)
(***************************************************************************)
\* the outcome o of the puts made so far, followed by the outcome p of the next
put_then(o, p) == [res |-> p.res, disk |-> p.disk, log |-> o.log \o p.log]

\* the loop of initialize that leaves the last cluster out
RECURSIVE initialize_loop_skips_last(_, _, _, _, _)
initialize_loop_skips_last(ft, cc, i, o, failAt) ==
    IF o.res # "Ok" \/ i + 1 >= cc
    THEN o
    ELSE initialize_loop_skips_last(ft, cc, i + 1,
             put_then(o, put(ft, o.disk, i, Free, failAt - Len(o.log))), failAt)

\* the loop of initialize: put(Cluster(i), Free) for i in 0..cluster_count
RECURSIVE initialize_loop(_, _, _, _, _)
initialize_loop(ft, cc, i, o, failAt) ==
    IF o.res # "Ok" \/ i >= cc
    THEN o
    ELSE initialize_loop(ft, cc, i + 1,
             put_then(o, put(ft, o.disk, i, Free, failAt - Len(o.log))), failAt)

\* FatValue::initialize
initialize(ft, d, cc, failAt) ==
    initialize_loop(ft, cc, 0, [res |-> "Ok", disk |-> d, log |-> <<>>], failAt)

\* the body of the loop of get_free_cluster_count, g being what FatValue::get
\* returned
free_count_after(o, g) ==
    IF g.res # "Ok"
    THEN [res |-> g.res, count |-> 0, log |-> o.log \o g.log]
    ELSE [res |-> "Ok",
          count |-> IF g.val = Free THEN o.count + 1 ELSE o.count,
          log |-> o.log \o g.log]

\* the loop of get_free_cluster_count that starts at cluster 0
RECURSIVE free_count_loop_from_zero(_, _, _, _, _, _)
free_count_loop_from_zero(ft, d, cc, current, o, failAt) ==
    IF o.res # "Ok" \/ current - 2 >= cc
    THEN o
    ELSE free_count_loop_from_zero(ft, d, cc, current + 1,
             free_count_after(o, get(ft, d, current - 2, failAt - Len(o.log))), failAt)

\* the loop of get_free_cluster_count: while current_cluster.0 < cluster_count
RECURSIVE free_count_loop(_, _, _, _, _, _)
free_count_loop(ft, d, cc, current, o, failAt) ==
    IF o.res # "Ok" \/ current >= cc
    THEN o
    ELSE free_count_loop(ft, d, cc, current + 1,
             free_count_after(o, get(ft, d, current, failAt - Len(o.log))), failAt)

\* get_free_cluster_count
get_free_cluster_count(ft, d, cc, failAt) ==
    free_count_loop(ft, d, cc, 2, [res |-> "Ok", count |-> 0, log |-> <<>>], failAt)

\* the cluster counts of the modelled volumes: the cells of the clusters
\* 0..cluster_count+1 fit in one FAT
ClusterCounts == 2..MaxCluster

\* the cells of the FAT of a volume
Cells == 0..(MaxCluster + 1)

\* what a cell of a used volume may hold before it is formatted again
VolValues == {Free, EndOfChain, Data(3)}

\* the reserved cells 0 and 1 hold the media and end-of-chain markers
VolCells == {cells \in [Cells -> VolValues \cup {EndOfChain}] :
                cells[0] = EndOfChain /\ cells[1] = EndOfChain}

VolDisks(ft) == {FatImage(ft, cells) : cells \in VolCells}

\* device calls one initialize can make
InitCalls == MaxCluster * MaxCalls

VolInit ==
    /\ fat_type \in FatTypes
    /\ cluster_count \in ClusterCounts
    /\ disk \in VolDisks(fat_type)
    /\ last = NoCall
    /\ failures = 0
    /\ iter = NoIter
    /\ walk = WalkIdle
    /\ dir = <<>>

Initialize(failAt) ==
    \E o \in {initialize(fat_type, disk, cluster_count, failAt)} :
        /\ FaultOk(failAt, o.log)
        /\ disk' = o.disk
        /\ last' = [op |-> "initialize", cluster |-> 0, value |-> None, res |-> o.res,
                    ret |-> None, again |-> Repeats("initialize", 0, None), log |-> o.log]
        /\ failures' = IF Injected(failAt, o.log) THEN failures + 1 ELSE failures
        /\ UNCHANGED <<fat_type, cluster_count, dir, iter, walk>>

FreeCount(failAt) ==
    \E o \in {get_free_cluster_count(fat_type, disk, cluster_count, failAt)} :
        /\ FaultOk(failAt, o.log)
        /\ last' = [op |-> "free_count", cluster |-> 0, value |-> None, res |-> o.res,
                    ret |-> o.count, again |-> Repeats("free_count", 0, None), log |-> o.log]
        /\ failures' = IF Injected(failAt, o.log) THEN failures + 1 ELSE failures
        /\ UNCHANGED <<fat_type, cluster_count, dir, disk, iter, walk>>

VolNext ==
    \/ \E f \in FailChoices(InitCalls) : Initialize(f)
    \/ \E f \in FailChoices(MaxCluster) : FreeCount(f)

VolSpec == VolInit /\ [][VolNext]_vars

(***************************************************************************)
(* Vocabulary of the volume properties.                                    *)
(***************************************************************************)
InitOk == last.op = "initialize" /\ last.res = "Ok"

\* the cells with index in [2, cc) that FAT 0 of disk d holds as Free
FreeCells(d, cc) == {c \in 2..(cc - 1) : ReadCell(d, 0, c) = Free}

\* what free_count() returns on the current volume when no read fails
FreeCountNow == get_free_cluster_count(fat_type, disk, cluster_count, 0)

\* C11: after initialize() succeeds on a volume with cluster_count >= 2,
\* free_count() returns Ok(cluster_count - 2), for every variant and whatever
\* the FATs held before.
C11_FreeAfterInit ==
    (InitOk /\ cluster_count >= 2) =>
        /\ FreeCountNow.res = "Ok"
        /\ FreeCountNow.count = cluster_count - 2

\* a Fat12 volume of MaxCluster clusters whose initialize had cells to write
C11_Witness ==
    /\ InitOk /\ fat_type = "Fat12" /\ cluster_count = MaxCluster
    /\ Cardinality(Writes(last.log)) >= FatsCount * (MaxCluster - 2)
    /\ FreeCountNow.count = MaxCluster - 2

\* C12 as stated: after initialize() succeeds, every cell of the legal
\* cluster range 2..cluster_count+1 decodes to Free in every FAT.
C12_LegalRangeFree ==
    InitOk => \A j \in 2..(cluster_count + 1) : OnDisk(disk, j, Free)

\* C16: free_count() reads the cells 2, 3, ..., cluster_count - 1 of FAT 0 in
\* that order, each once, and nothing else; when no read fails it returns
\* the number of those cells that decode to Free; a read that fails is its
\* last device call and it returns ReadFailed.
C16_FreeCount ==
    last.op = "free_count" =>
        /\ \A i \in 1..Len(last.log) :
              /\ last.log[i].op = "read"
              /\ last.log[i].off = FatStart(0) + to_fat_offset(fat_type, i + 1)
              /\ last.log[i].len = CellLen(fat_type)
        /\ Len(last.log) <= cluster_count - 2
        /\ Failed(last.log) = {} =>
              /\ last.res = "Ok"
              /\ Len(last.log) = cluster_count - 2
              /\ last.ret = Cardinality(FreeCells(disk, cluster_count))
        /\ Failed(last.log) # {} =>
              /\ last.res = "ReadFailed"
              /\ Failed(last.log) = {Len(last.log)}

\* a FAT whose cluster 3 links to itself and whose cluster 2 is free: the
\* count is 1 after two reads
C16_Witness ==
    /\ last.op = "free_count" /\ last.res = "Ok" /\ cluster_count = 4
    /\ ReadCell(disk, 0, 2) = Free /\ ReadCell(disk, 0, 3) = Data(3)
    /\ Len(last.log) = 2 /\ last.ret = 1

\* C20 as stated: initialize() leaves every cell with index >= cluster_count
\* as it was, in every FAT.
C20_InitFrame ==
    [][last'.op = "initialize" =>
          \A j \in Cells : j >= cluster_count =>
              \A r \in Replicas : ReadCell(disk', r, j) = ReadCell(disk, r, j)]_vars

(***************************************************************************)
(* Fat32 volumes whose cell 0 holds a given 32-bit word, reserved top      *)
(* nibble included, in every FAT; get and put on the cells 0 and 2.        *)
(***************************************************************************)
\* the words F8 FF FF 0F, F7 FF FF 8F, F8 FF FF 8F, 03 00 00 F0,
\* 00 00 00 F0 and 00 00 00 00
Words == {<<248, 255, 255, 15>>, <<247, 255, 255, 143>>, <<248, 255, 255, 143>>,
          <<3, 0, 0, 240>>, <<0, 0, 0, 240>>, <<0, 0, 0, 0>>}

WordDisks == {ImageAt("Fat32", 0, w) : w \in Words}

WordClusters == {0, 2}

\* the cells put is called with: the terminators, a link and a link with
\* bits above the 28th
WordValues == {Free, Bad, EndOfChain, Data(3), Data(FAT32_MASK + 4)}

WordInit ==
    /\ fat_type = "Fat32"
    /\ cluster_count = MaxCluster
    /\ disk \in WordDisks
    /\ last = NoCall
    /\ failures = 0
    /\ iter = NoIter
    /\ walk = WalkIdle
    /\ dir = <<>>

WordNext ==
    \/ \E k \in WordClusters, c \in WordValues, f \in FailChoices(MaxCalls) : Put(k, c, f)
    \/ \E k \in WordClusters, f \in FailChoices(1) : Get(k, f)

WordSpec == WordInit /\ [][WordNext]_vars

\* the four bytes FAT r of disk d holds for cluster k of a Fat32 volume
WordAt(d, r, k) == [i \in 1..4 |-> d[FatStart(r) + 4 * k + i - 1]]

\* the 32-bit value of four little-endian bytes
WordValue(w) == w[1] + 256 * w[2] + 65536 * w[3] + 16777216 * w[4]

\* the low 28 bits of a 32-bit value
Low28(v) == v % 268435456

\* the low 28 bits of the value of four little-endian bytes
Low28Of(w) == w[1] + 256 * w[2] + 65536 * w[3] + 16777216 * (w[4] % 16)

GetOk32 == last.op = "get" /\ last.res = "Ok" /\ fat_type = "Fat32"

\* C13 as stated: the bytes F8 FF FF 0F decode to EndOfChain, and the bytes
\* F7 FF FF 8F decode to EndOfChain too.
C13_BothEndOfChain ==
    GetOk32 =>
        /\ WordAt(disk, 0, last.cluster) = <<248, 255, 255, 15>> => last.ret = EndOfChain
        /\ WordAt(disk, 0, last.cluster) = <<247, 255, 255, 143>> => last.ret = EndOfChain

\* C13 (amended): on a Fat32 volume get decodes the low 28 bits of the
\* stored word and ignores its top 4 bits: the bytes F8 FF FF 0F and
\* F8 FF FF 8F decode to EndOfChain, the bytes F7 FF FF 8F decode to Bad and
\* the bytes 03 00 00 F0 to Data(3).
C13_TopNibbleMasked ==
    GetOk32 =>
        /\ last.ret = from_fat32_value(Low28Of(WordAt(disk, 0, last.cluster)))
        /\ WordAt(disk, 0, last.cluster) = <<3, 0, 0, 240>> => last.ret = Data(3)
        /\ WordAt(disk, 0, last.cluster) = <<248, 255, 255, 15>> => last.ret = EndOfChain
        /\ WordAt(disk, 0, last.cluster) = <<248, 255, 255, 143>> => last.ret = EndOfChain
        /\ WordAt(disk, 0, last.cluster) = <<247, 255, 255, 143>> => last.ret = Bad

\* a get of the cell stored as F7 FF FF 8F, which returned Bad
C13_Witness ==
    /\ GetOk32 /\ last.cluster = 0
    /\ WordAt(disk, 0, 0) = <<247, 255, 255, 143>> /\ last.ret = Bad

\* C19: on a Fat32 volume every device write of put(k, c) is a write of four
\* bytes at the offset of cell k in one FAT, whose little-endian value is
\* the low 28 bits of encode(Fat32, c) with the top 4 bits zero; a write
\* that succeeds leaves that word, top nibble zero, in the FAT, whatever the
\* top nibble held before.
C19_Fat32Write ==
    (last.op = "put" /\ fat_type = "Fat32") =>
        \A i \in Writes(last.log) :
            /\ last.log[i].len = 4
            /\ ReplicaOf(last.log[i].off) \in Replicas
            /\ last.log[i].off = FatStart(ReplicaOf(last.log[i].off)) + 4 * last.cluster
            /\ last.log[i].data[4] < 16
            /\ WordValue(last.log[i].data) = Low28(to_fat32_value(last.value))
            /\ last.log[i].ok =>
                  WordAt(disk, ReplicaOf(last.log[i].off), last.cluster) = last.log[i].data

\* put(Cluster(0), Data(2^28 + 3)) over the word F7 FF FF 8F: FAT 0 was
\* written as 03 00 00 00, the write of FAT 1 failed and it keeps its word
C19_Witness ==
    /\ last.op = "put" /\ fat_type = "Fat32" /\ last.res = "WriteFailed"
    /\ last.cluster = 0 /\ last.value = Data(FAT32_MASK + 4)
    /\ WordAt(disk, 0, 0) = <<3, 0, 0, 0>>
    /\ WordAt(disk, 1, 0) = <<247, 255, 255, 143>>

(***************************************************************************)
(* The cell codec by itself: a cell is encoded in the variant of the       *)
(* volume and the raw value is decoded again.                              *)
(***************************************************************************)
\* to_fat32_value, to_fat16_value or to_fat12_value, by variant
encode(ft, c) ==
    CASE ft = "Fat32" -> to_fat32_value(c)
      [] ft = "Fat16" -> to_fat16_value(c)
      [] OTHER -> to_fat12_value(c)

\* from_fat32_value, from_fat16_value or from_fat12_value, by variant
decode(ft, raw) ==
    CASE ft = "Fat32" -> from_fat32_value(raw)
      [] ft = "Fat16" -> from_fat16_value(raw)
      [] OTHER -> from_fat12_value(raw)

\* the links the codec is tried on: small ones and the ones around the
\* markers and the cell width of each variant
CodecData ==
    {0, 1, 2, 3, 291,
     FAT12_BAD - 1, FAT12_BAD, FAT12_EOC_MIN, FAT12_EOC, FAT12_EOC + 1,
     FAT16_BAD - 1, FAT16_BAD, FAT16_EOC_MIN, FAT16_EOC, U16, U16 + 3,
     FAT32_BAD - 1, FAT32_BAD, FAT32_EOC_MIN, FAT32_MASK, FAT32_MASK + 1, FAT32_MASK + 4}

CodecCells == {Free, Bad, EndOfChain} \cup {Data(n) : n \in CodecData}

CodecInit ==
    /\ fat_type \in FatTypes
    /\ cluster_count = MaxCluster
    /\ disk = BlankDisk
    /\ last = NoCall
    /\ failures = 0
    /\ iter = NoIter
    /\ walk = WalkIdle
    /\ dir = <<>>

\* encode the cell c; ret is the raw value
Encode(c) ==
    /\ last' = [op |-> "encode", cluster |-> 0, value |-> c, res |-> "Ok",
                ret |-> encode(fat_type, c), again |-> FALSE, log |-> <<>>]
    /\ UNCHANGED <<fat_type, cluster_count, dir, disk, failures, iter, walk>>

\* decode the raw value the encoding returned; ret is the cell
Decode ==
    /\ last.op = "encode"
    /\ last' = [last EXCEPT !.op = "decode", !.ret = decode(fat_type, last.ret)]
    /\ UNCHANGED <<fat_type, cluster_count, dir, disk, failures, iter, walk>>

CodecNext ==
    \/ \E c \in CodecCells : Encode(c)
    \/ Decode

CodecSpec == CodecInit /\ [][CodecNext]_vars

\* C14: for every variant V and every canonical cell c of V (Free, Bad,
\* EndOfChain, or Data(n) with n nonzero and below V's Bad marker),
\* decode(V, encode(V, c)) = c.
C14_RoundTrip ==
    (last.op = "decode" /\ Canonical(fat_type, last.value)) => last.ret = last.value

\* the largest Fat12 link, Data(0xFF6), encoded and decoded again
C14_Witness ==
    /\ last.op = "decode" /\ fat_type = "Fat12"
    /\ last.value = Data(FAT12_BAD - 1) /\ last.ret = Data(FAT12_BAD - 1)

(***************************************************************************)
(* DirectoryEntryRawInfo::get_dir_entry (dir_entry.rs).  The raw           *)
(* directory-entry stream, FatDirEntryIterator, is not in src/: following  *)
(* the specification (section 6) it is a finite sequence of slots, each a  *)
(* raw slot or an error, and it returns end-of-stream from its end on.     *)
(* dir is the stream from the anchor (parent_cluster,                      *)
(* first_entry_block_index, first_entry_offset) of the locator.            *)
(***************************************************************************)
OkSlot(id) == [ok |-> TRUE, slot |-> id, err |-> "none"]
ErrSlot(e) == [ok |-> FALSE, slot |-> 0, err |-> e]

\* Option of a slot
SomeSlot(x) == [tag |-> "Some", slot |-> x]
NoSlot == [tag |-> "None", slot |-> OkSlot(0)]

\* FatDirEntryIterator::next at position pos (from 1) of the stream
block_iter_next(stream, pos) ==
    IF pos <= Len(stream) THEN SomeSlot(stream[pos]) ELSE NoSlot

\* the loop body that takes an error slot for the end of the stream
RECURSIVE get_dir_entry_loop_swallows_error(_, _, _, _, _, _)
get_dir_entry_loop_swallows_error(stream, entry_count, i, pos, res, log) ==
    IF i >= entry_count
    THEN [res |-> IF res.tag = "Some" THEN "Ok" ELSE "NotFound", ret |-> res, log |-> log]
    ELSE IF block_iter_next(stream, pos).tag = "None" \/ ~block_iter_next(stream, pos).slot.ok
    THEN get_dir_entry_loop_swallows_error(stream, entry_count, i + 1,
             IF pos <= Len(stream) THEN pos + 1 ELSE pos, NoSlot,
             Append(log, block_iter_next(stream, pos)))
    ELSE get_dir_entry_loop_swallows_error(stream, entry_count, i + 1, pos + 1,
             block_iter_next(stream, pos), Append(log, block_iter_next(stream, pos)))

\* the while loop of get_dir_entry and its return; log is what the calls of
\* next returned
RECURSIVE get_dir_entry_loop(_, _, _, _, _, _)
get_dir_entry_loop(stream, entry_count, i, pos, res, log) ==
    IF i >= entry_count
    THEN [res |-> IF res.tag = "Some" THEN "Ok" ELSE "NotFound", ret |-> res, log |-> log]
    ELSE IF block_iter_next(stream, pos).tag = "None"
    THEN get_dir_entry_loop(stream, entry_count, i + 1, pos, NoSlot,
                            Append(log, NoSlot))
    ELSE IF ~block_iter_next(stream, pos).slot.ok
    THEN [res |-> block_iter_next(stream, pos).slot.err, ret |-> NoSlot,
          log |-> Append(log, block_iter_next(stream, pos))]
    ELSE get_dir_entry_loop(stream, entry_count, i + 1, pos + 1,
                            block_iter_next(stream, pos),
                            Append(log, block_iter_next(stream, pos)))

\* DirectoryEntryRawInfo::get_dir_entry
get_dir_entry(stream, entry_count) ==
    get_dir_entry_loop(stream, entry_count, 0, 1, NoSlot, <<>>)

\* the slots of a directory: two raw slots and a failed read
SlotValues == {OkSlot(1), OkSlot(2), ErrSlot("ReadFailed")}

RECURSIVE Streams(_)
Streams(n) ==
    IF n = 0 THEN {<<>>}
    ELSE Streams(n - 1) \cup
         {Append(st, x) : st \in {t \in Streams(n - 1) : Len(t) = n - 1}, x \in SlotValues}

DirInit ==
    /\ fat_type \in FatTypes
    /\ cluster_count = MaxCluster
    /\ disk = BlankDisk
    /\ last = NoCall
    /\ failures = 0
    /\ iter = NoIter
    /\ walk = WalkIdle
    /\ dir \in Streams(MaxSlots)

GetDirEntry(entry_count) ==
    \E o \in {get_dir_entry(dir, entry_count)} :
        /\ last' = [op |-> "reread_entry", entry_count |-> entry_count,
                    res |-> o.res, ret |-> o.ret, log |-> o.log]
        /\ UNCHANGED <<fat_type, cluster_count, dir, disk, failures, iter, walk>>

DirNext == \E entry_count \in 0..MaxEntryCount : GetDirEntry(entry_count)

DirSpec == DirInit /\ [][DirNext]_vars

\* the positions of the error slots among the first m slots of the stream
ErrorsIn(stream, m) == {j \in 1..Len(stream) : j <= m /\ ~stream[j].ok}

\* the least element of a nonempty set of numbers
Least(S) == CHOOSE j \in S : \A k \in S : j <= k

Reread == last.op = "reread_entry"

\* C15: reread_entry calls next entry_count times on the stream, or until a
\* call returns an error; it returns the first error among the first
\* entry_count slots right away, having consumed no slot after it;
\* otherwise it returns the entry_count-th slot, or NotFound when the stream
\* has fewer than entry_count slots or entry_count is 0.
C15_Reread ==
    Reread =>
        /\ \A i \in 1..Len(last.log) : last.log[i] = block_iter_next(dir, i)
        /\ IF ErrorsIn(dir, last.entry_count) # {}
           THEN /\ last.res = dir[Least(ErrorsIn(dir, last.entry_count))].err
                /\ Len(last.log) = Least(ErrorsIn(dir, last.entry_count))
           ELSE /\ Len(last.log) = last.entry_count
                /\ IF last.entry_count >= 1 /\ last.entry_count <= Len(dir)
                   THEN last.res = "Ok" /\ last.ret = SomeSlot(dir[last.entry_count])
                   ELSE last.res = "NotFound"

\* a stream whose second slot is an error, read for three slots: the error
\* is returned after two calls of next
C15_Witness ==
    /\ Reread /\ last.entry_count = 3
    /\ dir = <<OkSlot(1), ErrSlot("ReadFailed"), OkSlot(2)>>
    /\ last.res = "ReadFailed" /\ Len(last.log) = 2

(***************************************************************************)
(* Read failures and cycles in the chain operations.                       *)
(***************************************************************************)
\* this step injected a device failure
FaultStep == failures' # failures

\* the step constructs an iterator / steps the iterator / runs the query loop
NewStep == iter'.live /\ iter'.ret = Fresh
NextStep == iter.live /\ iter'.live /\ iter'.ret # Fresh
QueryStep == walk.pc = "loop" /\ walk' # walk

\* get, last and last_and_prev of cluster x, when the read of its cell fails
FailingGet(x) == get(fat_type, disk, x, 1)
FailingWalk(x) == walk_step(fat_type, disk, walk_start(x), 1)

Propagated(x) ==
    /\ FailingGet(x).res = "ReadFailed"
    /\ last_and_previous_ret(FailingWalk(x)).res = "ReadFailed"
    /\ get_last_cluster_ret(FailingWalk(x)).res = "ReadFailed"

\* C17: a failing read of the cell of cluster x, at construction (x the
\* seed) or during a step (x the successor), is not reported by the
\* iterator: the step that made the read returns its item as usual, the next
\* step yields x and leaves the iterator terminal, and every later step
\* yields nothing; get, last and last_and_prev return ReadFailed on the same
\* failing read, and so does a running last_and_prev whose read fails.
C17_SilentOnReadFailure ==
    [][/\ (FaultStep /\ NewStep) =>
              /\ iter'.current = Some(iter'.seed) /\ iter'.last_fat = None
              /\ iter'.yielded = <<>>
              /\ Propagated(iter'.seed)
       /\ (FaultStep /\ NextStep) =>
              /\ iter.last_fat.tag = "Data"
              /\ iter'.ret = iter.current
              /\ iter'.yielded = Append(iter.yielded, iter.current.n)
              /\ iter'.current = Some(iter.last_fat.n) /\ iter'.last_fat = None
              /\ Propagated(iter.last_fat.n)
       /\ (NextStep /\ iter.current # None /\ iter.last_fat = None) =>
              /\ iter'.ret = iter.current
              /\ iter'.yielded = Append(iter.yielded, iter.current.n)
              /\ iter'.current = None
       /\ (NextStep /\ iter.current = None) =>
              /\ iter'.ret = None /\ iter'.current = None
              /\ iter'.yielded = iter.yielded
       /\ (FaultStep /\ QueryStep) =>
              /\ walk'.pc = "done"
              /\ last_and_previous_ret(walk').res = "ReadFailed"
              /\ get_last_cluster_ret(walk').res = "ReadFailed"]_vars

\* cells 2 -> 3 -> 4: the read of the cell of cluster 3 failed during the
\* first step; the iterator yielded 2 and 3 and then nothing
C17_Witness ==
    /\ ReadCell(disk, 0, 2) = Data(3) /\ ReadCell(disk, 0, 3) = Data(4)
    /\ iter.live /\ iter.seed = 2 /\ iter.last_fat = None
    /\ iter.yielded = <<2, 3>> /\ iter.current = None /\ iter.ret = None

\* C18: when the cells reachable from a seed form a cycle of Data links, an
\* iterator none of whose reads failed is never terminal: every step yields
\* the next cluster along the links; and last / last_and_prev of that seed
\* do not return, unless a read fails.
C18_NoLoopProtection ==
    /\ (iter.live /\ iter.last_fat # None /\ ~ChainEnds(disk, iter.seed)) =>
           /\ iter.current # None /\ iter.ret # None
           /\ iter.last_fat.tag = "Data"
           /\ IsPrefix(iter.yielded, Follow(disk, iter.seed, MaxYield))
    /\ (walk.pc # "idle" /\ ~ChainEnds(disk, walk.seed)) =>
           (walk.pc = "loop" \/ walk.res = "ReadFailed")

\* cells 2 -> 3 -> 2: the iterator has yielded 2, 3, 2, 3, 2 and is not
\* terminal
C18_Witness ==
    /\ ReadCell(disk, 0, 2) = Data(3) /\ ReadCell(disk, 0, 3) = Data(2)
    /\ iter.live /\ iter.seed = 2 /\ iter.yielded = <<2, 3, 2, 3, 2>>
    /\ iter.current = Some(3) /\ iter.ret = Some(2)

====
